---- MODULE Spec2Model ----
(***************************************************************************)
(* Model of pegasus_autopilot/static_trajectories/src/circle.cpp:          *)
(* the Circle trajectory (constructor and evaluators) and CircleFactory.   *)
(*                                                                         *)
(* Numbers.  A double is modelled as an extended rational <<n, d>>:        *)
(*   d > 0  : the finite value n/d in lowest terms                         *)
(*   <<1,0>>: +inf     <<-1,0>>: -inf     <<0,0>>: NaN                      *)
(* Arithmetic is exact on finite values (no rounding, no overflow, one     *)
(* zero) and follows IEEE-754 on the special values.  Inputs are drawn     *)
(* from sets on which every square root whose value the code uses is       *)
(* exact; the root taken for the tolerance test of a tilted normal is      *)
(* rounded down, which leaves the outcome of the test as it is.            *)
(***************************************************************************)
EXTENDS Integers, Sequences, FiniteSets, TLC

VARIABLES manager, requests, responses, pc, call, ret

vars == <<manager, requests, responses, pc, call, ret>>

----------------------------------------------------------------------------
(* Extended rational arithmetic (double)                                   *)

Abs(i) == IF i < 0 THEN -i ELSE i

Sign(i) == IF i < 0 THEN -1 ELSE IF i > 0 THEN 1 ELSE 0

RECURSIVE GCD(_, _)
GCD(a, b) == IF b = 0 THEN a ELSE GCD(b, a % b)

\* The double with value n/d (the special value of that sign when d = 0).
Q(n, d) ==
    IF d = 0 THEN <<Sign(n), 0>>
    ELSE LET g == GCD(Abs(n), Abs(d))
             s == Sign(d)
         IN  <<(s * n) \div g, (s * d) \div g>>

Zero == <<0, 1>>
One == <<1, 1>>
PosInf == <<1, 0>>
NegInf == <<-1, 0>>
NaN == <<0, 0>>

IsNaN(x) == x = NaN
IsInf(x) == x[2] = 0 /\ x[1] # 0
\* std::isfinite
IsFinite(x) == x[2] # 0

FNeg(x) == <<-x[1], x[2]>>

FAbs(x) == <<Abs(x[1]), x[2]>>

FAdd(x, y) ==
    IF IsNaN(x) \/ IsNaN(y) THEN NaN
    ELSE IF IsInf(x) THEN (IF IsInf(y) /\ y # x THEN NaN ELSE x)
    ELSE IF IsInf(y) THEN y
    ELSE LET g == GCD(x[2], y[2])
             l == (x[2] \div g) * y[2]
         IN  Q(x[1] * (l \div x[2]) + y[1] * (l \div y[2]), l)

FSub(x, y) == FAdd(x, FNeg(y))

FMul(x, y) ==
    IF IsNaN(x) \/ IsNaN(y) THEN NaN
    ELSE IF IsInf(x) \/ IsInf(y)
         THEN <<Sign(x[1]) * Sign(y[1]), 0>>      \* inf * 0 = NaN
    ELSE LET g1 == GCD(Abs(x[1]), y[2])
             g2 == GCD(Abs(y[1]), x[2])
         IN  Q((x[1] \div g1) * (y[1] \div g2), (x[2] \div g2) * (y[2] \div g1))

FDiv(x, y) ==
    IF IsNaN(x) \/ IsNaN(y) THEN NaN
    ELSE IF IsInf(y) THEN (IF IsInf(x) THEN NaN ELSE Zero)
    ELSE IF y[1] = 0 THEN <<Sign(x[1]), 0>>       \* 0 / 0 = NaN, x / 0 = inf
    ELSE IF IsInf(x) THEN <<Sign(x[1]) * Sign(y[1]), 0>>
    ELSE FMul(x, Q(y[2], y[1]))

\* x > y on doubles: false when either is NaN.
FGt(x, y) ==
    IF IsNaN(x) \/ IsNaN(y) THEN FALSE
    ELSE IF IsInf(x) THEN x = PosInf /\ y # PosInf
    ELSE IF IsInf(y) THEN y = NegInf
    ELSE LET ix == x[1] \div x[2]           \* integer parts first, then the
             iy == y[1] \div y[2]           \* fractional parts
         IN  \/ ix > iy
             \/ ix = iy /\ (x[1] % x[2]) * y[2] > (y[1] % y[2]) * x[2]

RECURSIVE ISqrtIter(_, _, _)
ISqrtIter(n, lo, hi) ==
    IF lo >= hi THEN lo
    ELSE LET mid == (lo + hi + 1) \div 2
         IN  IF mid * mid <= n THEN ISqrtIter(n, mid, hi)
             ELSE ISqrtIter(n, lo, mid - 1)

\* Largest k with k * k <= n.
ISqrt(n) == ISqrtIter(n, 0, IF n < 46340 THEN n ELSE 46340)

\* std::sqrt; exact when numerator and denominator are perfect squares.
FSqrt(x) ==
    IF IsNaN(x) \/ x = NegInf \/ x[1] < 0 THEN NaN
    ELSE IF x = PosInf THEN PosInf
    ELSE Q(ISqrt(x[1]), ISqrt(x[2]))

----------------------------------------------------------------------------
(* Eigen::Vector3d and Eigen::Matrix3d                                     *)

Vec(x, y, z) == <<x, y, z>>

VZero == <<Zero, Zero, Zero>>

VAdd(a, b) == <<FAdd(a[1], b[1]), FAdd(a[2], b[2]), FAdd(a[3], b[3])>>

VSub(a, b) == <<FSub(a[1], b[1]), FSub(a[2], b[2]), FSub(a[3], b[3])>>

\* k * a (used by the properties)
VScale(k, a) == <<FMul(k, a[1]), FMul(k, a[2]), FMul(k, a[3])>>

VAbs(a) == <<FAbs(a[1]), FAbs(a[2]), FAbs(a[3])>>

Dot(a, b) == FAdd(FAdd(FMul(a[1], b[1]), FMul(a[2], b[2])), FMul(a[3], b[3]))

Cross(a, b) ==
    <<FSub(FMul(a[2], b[3]), FMul(a[3], b[2])),
      FSub(FMul(a[3], b[1]), FMul(a[1], b[3])),
      FSub(FMul(a[1], b[2]), FMul(a[2], b[1]))>>

SquaredNorm(a) == Dot(a, a)

VNorm(a) == FSqrt(SquaredNorm(a))

\* Eigen (3.3 and later) MatrixBase::normalized(): a vector whose squared
\* norm is not > 0 is returned as it is.
Normalized(a) ==
    LET z == SquaredNorm(a)
    IN  IF FGt(z, Zero)
        THEN LET s == FSqrt(z)
             IN  <<FDiv(a[1], s), FDiv(a[2], s), FDiv(a[3], s)>>
        ELSE a

Identity == <<Vec(One, Zero, Zero), Vec(Zero, One, Zero), Vec(Zero, Zero, One)>>

\* Matrix (a tuple of rows) times vector.
MatVec(m, v) == <<Dot(m[1], v), Dot(m[2], v), Dot(m[3], v)>>

\* m * m^T (used by the properties)
MulTranspose(m) ==
    <<Vec(Dot(m[1], m[1]), Dot(m[1], m[2]), Dot(m[1], m[3])),
      Vec(Dot(m[2], m[1]), Dot(m[2], m[2]), Dot(m[2], m[3])),
      Vec(Dot(m[3], m[1]), Dot(m[3], m[2]), Dot(m[3], m[3]))>>

----------------------------------------------------------------------------
(* Progress parameter and trigonometry                                     *)

\* M_PI: the double nearest to pi, a rational; 22/7 stands for it.
M_PI == Q(22, 7)

TwoPi == FMul(Q(2, 1), M_PI)

\* std::pow(2 * M_PI, k) for k = 2, 3
Pow(x, k) == IF k = 2 THEN FMul(x, x) ELSE FMul(FMul(x, x), x)

\* A progress value gamma is [quarter, off, finite]: the real number
\* quarter/4 + off * theta0 turns, theta0 = atan(4/3) / (2 pi), the angle
\* whose cosine is 3/5 and sine 4/5; finite = FALSE is a NaN gamma.
GammaOf(k, o) == [quarter |-> k, off |-> o, finite |-> TRUE]

GammaNaN == [quarter |-> 0, off |-> 0, finite |-> FALSE]

\* <<cos, sin>> of gamma * 2 * M_PI, by the angle-addition formulas for
\* quarter turns (exact at the true pi).
CosSin(gamma) ==
    IF ~gamma.finite THEN <<NaN, NaN>>
    ELSE LET c == IF gamma.off = 0 THEN One ELSE Q(3, 5)
             s == IF gamma.off = 0 THEN Zero ELSE Q(4, 5)
             k == gamma.quarter % 4
         IN  CASE k = 0 -> <<c, s>>
               [] k = 1 -> <<FNeg(s), c>>
               [] k = 2 -> <<FNeg(c), FNeg(s)>>
               [] OTHER -> <<s, FNeg(c)>>

cos(gamma) == CosSin(gamma)[1]

sin(gamma) == CosSin(gamma)[2]

\* std::atan2(y, x).  The angle in (-pi, pi] is returned as the primitive
\* integer direction <<p, q>> of the ray it names (the angle of p + i q);
\* atan2(0, 0) = 0 is the ray <<1, 0>>, an infinite argument dominates a
\* finite one, and a NaN argument gives NaN = <<0, 0>>.
atan2(y, x) ==
    IF IsNaN(x) \/ IsNaN(y) THEN NaN
    ELSE IF IsInf(x) \/ IsInf(y)
         THEN <<IF IsInf(x) THEN x[1] ELSE 0, IF IsInf(y) THEN y[1] ELSE 0>>
    ELSE IF x[1] = 0 /\ y[1] = 0 THEN <<1, 0>>
    ELSE LET p == x[1] * y[2]
             q == y[1] * x[2]
             g == GCD(Abs(p), Abs(q))
         IN  <<p \div g, q \div g>>

----------------------------------------------------------------------------
(* Circle                                                                  *)

base_normal == Vec(Zero, Zero, One)

\* Rotation with the tolerance test made on normal_ itself, the element-wise
\* absolute value forgotten.
Rotation_without_abs(normal) ==
    IF FGt(VNorm(VSub(normal, Vec(Zero, Zero, One))), Q(1, 10000))
    THEN LET u3 == Normalized(normal)
             u1 == Normalized(Cross(u3, Vec(Zero, Zero, One)))
             u2 == Normalized(Cross(u3, u1))
         IN  <<u1, u2, u3>>
    ELSE Identity

\* rotation_ as the member's initializer leaves it.
rotation_default == Identity

\* The rotation matrix the constructor leaves in rotation_.
Rotation(normal) ==
    LET absolute_normal == VAbs(normal)
    IN  IF FGt(VNorm(VSub(absolute_normal, base_normal)), Q(1, 10000))
        THEN LET u3 == Normalized(normal)
                 u1 == Normalized(Cross(u3, base_normal))
                 u2 == Normalized(Cross(u3, u1))
             IN  <<u1, u2, u3>>          \* rotation_(0,i), (1,i), (2,i)
        ELSE rotation_default

\* Circle::Circle
Circle(center, normal, radius, vehicle_speed) ==
    [center_ |-> center, normal_ |-> normal, radius_ |-> radius,
     vehicle_speed_ |-> vehicle_speed, rotation_ |-> Rotation(normal)]

\* The circle in the plane z = 0 around the origin.
pd_canonical(c, gamma) ==
    Vec(FMul(c.radius_, cos(gamma)), FMul(c.radius_, sin(gamma)), Zero)

pd_placed(c, v) == VAdd(MatVec(c.rotation_, v), c.center_)

pd(c, gamma) == pd_placed(c, pd_canonical(c, gamma))

\* d_pd_canonical with the minus sign of the first component lost.
d_pd_canonical_sign_lost(c, gamma) ==
    Vec(FMul(FMul(FMul(c.radius_, Q(2, 1)), M_PI), sin(gamma)),
        FMul(FMul(FMul(c.radius_, Q(2, 1)), M_PI), cos(gamma)),
        Zero)

d_pd_canonical(c, gamma) ==
    Vec(FMul(FMul(FMul(FNeg(c.radius_), Q(2, 1)), M_PI), sin(gamma)),
        FMul(FMul(FMul(c.radius_, Q(2, 1)), M_PI), cos(gamma)),
        Zero)

d_pd(c, gamma) == MatVec(c.rotation_, d_pd_canonical(c, gamma))

\* d2_pd_canonical with the signs of d_pd_canonical.
d2_pd_canonical_sign_slip(c, gamma) ==
    Vec(FMul(FMul(FNeg(c.radius_), Pow(TwoPi, 2)), cos(gamma)),
        FMul(FMul(c.radius_, Pow(TwoPi, 2)), sin(gamma)),
        Zero)

d2_pd_canonical(c, gamma) ==
    Vec(FMul(FMul(FNeg(c.radius_), Pow(TwoPi, 2)), cos(gamma)),
        FMul(FMul(FNeg(c.radius_), Pow(TwoPi, 2)), sin(gamma)),
        Zero)

d2_pd(c, gamma) == MatVec(c.rotation_, d2_pd_canonical(c, gamma))

d3_pd_canonical(c, gamma) ==
    Vec(FMul(FMul(c.radius_, Pow(TwoPi, 3)), sin(gamma)),
        FMul(FMul(FNeg(c.radius_), Pow(TwoPi, 3)), cos(gamma)),
        Zero)

d3_pd(c, gamma) == MatVec(c.rotation_, d3_pd_canonical(c, gamma))

yaw_of(c, p) ==
    LET center_to_pd == VSub(c.center_, p)
    IN  atan2(center_to_pd[2], center_to_pd[1])

yaw(c, gamma) == yaw_of(c, pd(c, gamma))

d_yaw(c, gamma) == Zero

vehicle_speed(c, gamma) == c.vehicle_speed_

\* vd_of dividing without the derivative_norm != 0 guard.
vd_of_unguarded(c, derivative_norm) ==
    LET vd1 == FDiv(c.vehicle_speed_, derivative_norm)
    IN  IF ~IsFinite(vd1) THEN Q(1, 100000000) ELSE vd1

\* vd_of without the std::isfinite fallback.
vd_of_without_fallback(c, derivative_norm) ==
    IF derivative_norm # Zero
    THEN FDiv(c.vehicle_speed_, derivative_norm) ELSE Zero

\* vd_of dividing the magnitude of the speed.
vd_of_unsigned(c, derivative_norm) ==
    LET vd1 == IF derivative_norm # Zero
               THEN FDiv(FAbs(c.vehicle_speed_), derivative_norm) ELSE Zero
    IN  IF ~IsFinite(vd1) THEN Q(1, 100000000) ELSE vd1

\* The tail of Circle::vd, from the derivative norm on.
vd_of(c, derivative_norm) ==
    LET vd0 == Zero
        vd1 == IF derivative_norm # Zero
               THEN FDiv(c.vehicle_speed_, derivative_norm) ELSE vd0
    IN  IF ~IsFinite(vd1) THEN Q(1, 100000000) ELSE vd1

vd(c, gamma) == vd_of(c, VNorm(d_pd(c, gamma)))

----------------------------------------------------------------------------
(* Inputs                                                                  *)

\* Circles the factory hands over in a behaviour of SpecFactory, and of Spec.
MaxCircles == 2
MaxManaged == 1
\* Progress values range over -MaxQuarter/4 .. MaxQuarter/4 turns (+ theta0).
MaxQuarter == 2

Threads == {1, 2}

Ops == {"pd", "d_pd", "d2_pd", "d3_pd", "yaw", "d_yaw", "vehicle_speed", "vd"}

IVec(x, y, z) == Vec(Q(x, 1), Q(y, 1), Q(z, 1))

Centers == {IVec(0, 0, 0), IVec(1, 2, 3)}

\* Normals along the Z axis: the two unit ones, un-normalized ones inside,
\* on and outside the 0.0001 tolerance, and the zero vector.
ZNormals ==
    {IVec(0, 0, 1), IVec(0, 0, -1), IVec(0, 0, 2), IVec(0, 0, 0),
     Vec(Zero, Zero, Q(20001, 20000)), Vec(Zero, Zero, Q(10001, 10000)),
     Vec(Zero, Zero, Q(5001, 5000))}

\* Normals off the Z axis, unit and un-normalized.
TiltedNormals ==
    {IVec(1, 0, 0), IVec(0, 1, 0), IVec(3, 0, 4), IVec(-3, 4, 0), IVec(3, 4, 12)}

Normals == ZNormals \cup TiltedNormals

Radii == {Zero, Q(5, 1), Q(-1, 1), Q(1, 2), PosInf}

Speeds == {Zero, Q(2, 1), Q(-2, 1), PosInf, NaN}

\* pegasus_msgs::srv::AddCircle::Request; speed is speed.parameters[0].
Requests == [center : Centers, normal : Normals, radius : Radii, speed : Speeds]

Gammas ==
    {GammaOf(k, o) : k \in (-MaxQuarter)..MaxQuarter, o \in {0, 1}} \cup {GammaNaN}

\* The requests and progress values of the whole-program specification.
SomeRequests ==
    {[center |-> IVec(1, 2, 3), normal |-> IVec(3, 4, 12), radius |-> Q(5, 1),
      speed |-> Q(2, 1)],
     [center |-> IVec(0, 0, 0), normal |-> IVec(0, 0, 2), radius |-> Q(1, 2),
      speed |-> PosInf],
     [center |-> IVec(0, 0, 0), normal |-> IVec(0, 0, -1), radius |-> Zero,
      speed |-> Q(-2, 1)]}

SomeGammas == {GammaOf(1, 1)}

\* The requests of the factory specification.
FactoryRequests ==
    [center : {IVec(1, 2, 3)}, normal : {IVec(0, 0, 1), IVec(1, 0, 0), IVec(0, 0, 0)},
     radius : {Zero, Q(5, 1)}, speed : {Q(2, 1), NaN}]

----------------------------------------------------------------------------
(* State                                                                   *)
(*   manager   : the circles handed to the trajectory manager, in order    *)
(*   requests  : the requests circle_callback has served, in order         *)
(*   responses : response.success of each served request                   *)
(*   pc, call, ret : per calling thread, whether it is inside an           *)
(*               evaluator, the call it is in (with the evaluator's local  *)
(*               vector) and what its last completed call returned         *)

NoCall == [i |-> 0, op |-> "none", gamma |-> GammaNaN, local |-> VZero]

NoRet == [i |-> 0, op |-> "none", gamma |-> GammaNaN, val |-> Zero]

Init ==
    /\ manager = <<>>
    /\ requests = <<>>
    /\ responses = <<>>
    /\ pc = [t \in Threads |-> "idle"]
    /\ call = [t \in Threads |-> NoCall]
    /\ ret = [t \in Threads |-> NoRet]

\* circle_callback refusing a request whose normal is the zero vector.
circle_callback_validating(request) ==
    /\ IF request.normal = VZero
       THEN /\ manager' = manager
            /\ responses' = Append(responses, FALSE)
       ELSE /\ manager' = Append(manager, Circle(request.center, request.normal,
                                                 request.radius, request.speed))
            /\ responses' = Append(responses, TRUE)
    /\ requests' = Append(requests, request)
    /\ UNCHANGED <<pc, call, ret>>

\* CircleFactory::circle_callback
circle_callback(request) ==
    /\ LET circle == Circle(request.center, request.normal, request.radius,
                            request.speed)
       IN  manager' = Append(manager, circle)   \* add_trajectory_to_manager
    /\ responses' = Append(responses, TRUE)
    /\ requests' = Append(requests, request)
    /\ UNCHANGED <<pc, call, ret>>

\* The vector an evaluator first computes in the canonical frame.
Canonical(op, c, gamma) ==
    CASE op \in {"pd", "yaw"} -> pd_canonical(c, gamma)
      [] op \in {"d_pd", "vd"} -> d_pd_canonical(c, gamma)
      [] op = "d2_pd" -> d2_pd_canonical(c, gamma)
      [] op = "d3_pd" -> d3_pd_canonical(c, gamma)
      [] OTHER -> VZero

\* Thread t enters evaluator op of circle i with argument gamma.
Invoke(t, i, op, gamma) ==
    /\ pc[t] = "idle"
    /\ i \in 1..Len(manager)
    /\ pc' = [pc EXCEPT ![t] = "called"]
    /\ call' = [call EXCEPT ![t] = [i |-> i, op |-> op, gamma |-> gamma,
                                    local |-> Canonical(op, manager[i], gamma)]]
    /\ ret' = [ret EXCEPT ![t] = NoRet]
    /\ UNCHANGED <<manager, requests, responses>>

\* Returns for evaluators that keep their result in the object: a vector
\* result is stored into center_.
Returns_storing(t, op, val) ==
    /\ pc[t] = "called"
    /\ call[t].op = op
    /\ ret' = [ret EXCEPT ![t] = [i |-> call[t].i, op |-> op,
                                  gamma |-> call[t].gamma, val |-> val]]
    /\ pc' = [pc EXCEPT ![t] = "idle"]
    /\ call' = [call EXCEPT ![t] = NoCall]
    /\ manager' = IF Len(val) = 3
                  THEN [manager EXCEPT ![call[t].i].center_ = val]
                  ELSE manager
    /\ UNCHANGED <<requests, responses>>

\* Thread t leaves evaluator op with value val; the evaluators are const.
Returns(t, op, val) ==
    /\ pc[t] = "called"
    /\ call[t].op = op
    /\ ret' = [ret EXCEPT ![t] = [i |-> call[t].i, op |-> op,
                                  gamma |-> call[t].gamma, val |-> val]]
    /\ pc' = [pc EXCEPT ![t] = "idle"]
    /\ call' = [call EXCEPT ![t] = NoCall]
    /\ UNCHANGED <<manager, requests, responses>>

Self(t) == manager[call[t].i]

pd_return(t) == Returns(t, "pd", pd_placed(Self(t), call[t].local))

d_pd_return(t) == Returns(t, "d_pd", MatVec(Self(t).rotation_, call[t].local))

d2_pd_return(t) == Returns(t, "d2_pd", MatVec(Self(t).rotation_, call[t].local))

d3_pd_return(t) == Returns(t, "d3_pd", MatVec(Self(t).rotation_, call[t].local))

yaw_return(t) ==
    Returns(t, "yaw", yaw_of(Self(t), pd_placed(Self(t), call[t].local)))

d_yaw_return(t) == Returns(t, "d_yaw", d_yaw(Self(t), call[t].gamma))

vehicle_speed_return(t) ==
    Returns(t, "vehicle_speed", vehicle_speed(Self(t), call[t].gamma))

vd_return(t) ==
    Returns(t, "vd", vd_of(Self(t), VNorm(MatVec(Self(t).rotation_, call[t].local))))

Evaluate(t) ==
    \/ pd_return(t)
    \/ d_pd_return(t)
    \/ d2_pd_return(t)
    \/ d3_pd_return(t)
    \/ yaw_return(t)
    \/ d_yaw_return(t)
    \/ vehicle_speed_return(t)
    \/ vd_return(t)

\* The whole program: the factory serves requests while two threads call
\* the evaluators of the circles handed over.
Next ==
    \/ \E request \in SomeRequests :
          Len(manager) < MaxManaged /\ circle_callback(request)
    \/ \E t \in Threads, i \in 1..MaxManaged, op \in Ops, gamma \in SomeGammas :
          Invoke(t, i, op, gamma)
    \/ \E t \in Threads : Evaluate(t)

Spec == Init /\ [][Next]_vars

\* The factory alone.
NextFactory ==
    \E request \in FactoryRequests :
        Len(manager) < MaxCircles /\ circle_callback(request)

SpecFactory == Init /\ [][NextFactory]_vars

\* One circle, constructed from any of the inputs, and one evaluator call
\* made on it.
InitEval ==
    /\ \E request \in Requests :
          /\ requests = <<request>>
          /\ manager = <<Circle(request.center, request.normal, request.radius,
                                request.speed)>>
    /\ responses = <<TRUE>>
    /\ pc = [t \in Threads |-> "idle"]
    /\ call = [t \in Threads |-> NoCall]
    /\ ret = [t \in Threads |-> NoRet]

NextEval ==
    \/ \E op \in Ops, gamma \in Gammas : ret[1] = NoRet /\ Invoke(1, 1, op, gamma)
    \/ Evaluate(1)

SpecEval == InitEval /\ [][NextEval]_vars

----------------------------------------------------------------------------
(* Vocabulary of the properties                                            *)

\* Thread t's last completed call was evaluator op.
Returned(t, op) == ret[t].op = op

\* The circle that call was made on.
Target(t) == manager[ret[t].i]

\* position - center of that call, for a call of pd.
Offset(t) == VSub(ret[t].val, Target(t).center_)

Orthonormal(m) == MulTranspose(m) = Identity

\* |abs(normal) - (0,0,1)| <= 1e-4, stated on the squared distance.
NearZAxis(normal) ==
    ~FGt(SquaredNorm(VSub(VAbs(normal), base_normal)), Q(1, 100000000))

FiniteGammas == {g \in Gammas : g.finite}

\* The value evaluator op returns on a circle constructed from request and
\* called alone.
Alone(op, request, gamma) ==
    LET c == Circle(request.center, request.normal, request.radius, request.speed)
    IN  CASE op = "pd" -> pd(c, gamma)
          [] op = "d_pd" -> d_pd(c, gamma)
          [] op = "d2_pd" -> d2_pd(c, gamma)
          [] op = "d3_pd" -> d3_pd(c, gamma)
          [] op = "yaw" -> yaw(c, gamma)
          [] op = "d_yaw" -> d_yaw(c, gamma)
          [] op = "vehicle_speed" -> vehicle_speed(c, gamma)
          [] op = "vd" -> vd(c, gamma)

----------------------------------------------------------------------------
(* Properties                                                              *)

\* C1: for a non-zero normal, finite radius and finite gamma, position(gamma)
\* - center has length |radius| and no component along normal.
C1_OnCircleInPlane ==
    \A t \in Threads :
        (/\ Returned(t, "pd")
         /\ Target(t).normal_ # VZero
         /\ IsFinite(Target(t).radius_)
         /\ ret[t].gamma.finite)
        => /\ SquaredNorm(Offset(t)) = FMul(Target(t).radius_, Target(t).radius_)
           /\ Dot(Offset(t), Target(t).normal_) = Zero

\* C2: rotation * rotation^T = I for every constructed circle.
C2_RotationOrthonormal ==
    \A i \in 1..Len(manager) : Orthonormal(manager[i].rotation_)

\* C3 as stated: with radius 0 and a finite speed, progressRate returns 1e-8.
C3_ZeroRadiusFallback ==
    \A t \in Threads :
        (/\ Returned(t, "vd")
         /\ Target(t).radius_ = Zero
         /\ IsFinite(Target(t).vehicle_speed_))
        => ret[t].val = Q(1, 100000000)

\* C3 amended: with radius 0, at every finite gamma the velocity norm is 0
\* and progressRate returns exactly 0, whatever the speed.
C3_ZeroRadiusReturnsZero ==
    \A t \in Threads :
        (/\ Returned(t, "vd")
         /\ Target(t).radius_ = Zero
         /\ ret[t].gamma.finite)
        => /\ VNorm(d_pd(Target(t), ret[t].gamma)) = Zero
           /\ ret[t].val = Zero

C3_Witness ==
    /\ Returned(1, "vd")
    /\ Target(1).radius_ = Zero
    /\ Target(1).vehicle_speed_ = Q(2, 1)
    /\ Target(1).normal_ = IVec(3, 4, 12)
    /\ ret[1].gamma = GammaOf(1, 1)
    /\ ret[1].val = Zero

\* C4: progressRate returns a finite value for every gamma, radius, normal
\* and speed, a non-finite speed and a zero velocity norm included.
C4_ProgressRateFinite ==
    \A t \in Threads : Returned(t, "vd") => IsFinite(ret[t].val)

C4_Witness ==
    /\ Returned(1, "vd")
    /\ Target(1).vehicle_speed_ = PosInf
    /\ Target(1).radius_ = Q(5, 1)
    /\ ret[1].val = Q(1, 100000000)

C6_EvaluatorsPure ==
    /\ Len(manager) = Len(requests)
    /\ \A i \in 1..Len(manager) :
          manager[i] = Circle(requests[i].center, requests[i].normal,
                              requests[i].radius, requests[i].speed)
    /\ \A t \in Threads :
          ret[t].op # "none"
          => ret[t].val = Alone(ret[t].op, requests[ret[t].i], ret[t].gamma)

\* Thread 1 completed a call on a circle while thread 2 was inside an
\* evaluator of the same circle.
C6_Witness ==
    /\ Returned(1, "vd")
    /\ pc[2] = "called"
    /\ call[2].op = "pd"
    /\ call[2].i = ret[1].i

\* C7: for finite radius # 0 and finite gamma, acceleration(gamma) is
\* -(2 pi)^2 times (position(gamma) - center), and is not the zero vector
\* when rotation is orthonormal.
C7_AccelerationTowardCenter ==
    \A t \in Threads :
        (/\ Returned(t, "d2_pd")
         /\ Target(t).radius_ # Zero
         /\ IsFinite(Target(t).radius_)
         /\ ret[t].gamma.finite)
        => /\ ret[t].val =
                VScale(FNeg(Pow(TwoPi, 2)),
                       VSub(pd(Target(t), ret[t].gamma), Target(t).center_))
           /\ FGt(Pow(TwoPi, 2), Zero)
           /\ Orthonormal(Target(t).rotation_) => ret[t].val # VZero

C7_Witness ==
    /\ Returned(1, "d2_pd")
    /\ Target(1).normal_ = IVec(3, 4, 12)
    /\ Target(1).radius_ = Q(1, 2)
    /\ ret[1].gamma = GammaOf(1, 1)
    /\ ret[1].val # VZero

\* C8: for finite radius and finite gamma, velocity(gamma) is orthogonal to
\* position(gamma) - center.
C8_VelocityTangent ==
    \A t \in Threads :
        (/\ Returned(t, "d_pd")
         /\ IsFinite(Target(t).radius_)
         /\ ret[t].gamma.finite)
        => Dot(ret[t].val, VSub(pd(Target(t), ret[t].gamma), Target(t).center_))
              = Zero

C8_Witness ==
    /\ Returned(1, "d_pd")
    /\ Target(1).normal_ = IVec(3, 4, 12)
    /\ Target(1).radius_ = Q(5, 1)
    /\ ret[1].gamma = GammaOf(-1, 1)
    /\ ret[1].val # VZero

\* C9: when the velocity norm is not 0 and speed / norm is finite,
\* progressRate returns exactly speed / norm, of the sign of speed, and on an
\* orthonormal rotation the same value at every gamma.
C9_ProgressRateQuotient ==
    \A t \in Threads :
        Returned(t, "vd") =>
            LET c == Target(t)
                norm == VNorm(d_pd(c, ret[t].gamma))
                q == FDiv(c.vehicle_speed_, norm)
            IN  (norm # Zero /\ IsFinite(q))
                => /\ ret[t].val = q
                   /\ Sign(ret[t].val[1]) = Sign(c.vehicle_speed_[1])
                   /\ Orthonormal(c.rotation_)
                         => \A g \in FiniteGammas : vd(c, g) = ret[t].val

C9_Witness ==
    /\ Returned(1, "vd")
    /\ Target(1).vehicle_speed_ = Q(-2, 1)
    /\ Target(1).radius_ = Q(5, 1)
    /\ Target(1).normal_ = IVec(3, 4, 12)
    /\ ret[1].val = Q(-7, 110)

\* C10: after n callbacks the manager holds exactly n circles, the i-th made
\* from the i-th request's center, normal, radius and speed.parameters[0],
\* and every response has success = true.
C10_OneCirclePerRequest ==
    /\ Len(manager) = Len(requests)
    /\ Len(responses) = Len(requests)
    /\ \A i \in 1..Len(requests) :
          /\ manager[i].center_ = requests[i].center
          /\ manager[i].normal_ = requests[i].normal
          /\ manager[i].radius_ = requests[i].radius
          /\ manager[i].vehicle_speed_ = requests[i].speed
          /\ manager[i].rotation_ = Rotation(requests[i].normal)
          /\ responses[i] = TRUE

\* Two different requests served, the first with a zero normal and radius 0.
C10_Witness ==
    /\ Len(manager) = 2
    /\ requests[1].normal = VZero
    /\ requests[1].radius = Zero
    /\ requests[2].normal = IVec(1, 0, 0)
    /\ manager[1] # manager[2]

====
